---- MODULE Spec2Model ----
(***************************************************************************)
(* Study-material generation: the three-tier fallback wrappers of          *)
(* utils/content_processor.py (primary = OpenAI, secondary = free          *)
(* Hugging Face endpoints, static = local extraction) and the              *)
(* process_input pipeline built on them.                                   *)
(*                                                                         *)
(* A tier result is the Python dict it returns: Ok(d) is                   *)
(* {"success": True, <field>: d} and Fail(e) is {"success": False,         *)
(* "error": e}; the two have different keys, as in the code.  A payload d  *)
(* is abstracted to the tier that produced it and the number of items it   *)
(* carries (bullets, resources, questions, note blocks).  What a provider  *)
(* answers and what the regular expressions extract from a text are        *)
(* inputs of the actions.                                                  *)
(***************************************************************************)
EXTENDS Integers, Sequences, FiniteSets, TLC

\* ---------------------------------------------------------------- bounds
MaxItems == 2
MaxCount == 2

\* ------------------------------------------------------ program constants
DefaultMaxBullets == 7
DefaultMaxResources == 3
DefaultNumQuestions == 5
DefaultMaxSections == 3
CannedBullets == 4
CannedKeyTerms == 4
CannedConcepts == 3
CannedFlashcards == 3
ConceptCap == 5
FlashcardCap == 5
ResourceTypes == 3
GenericQuestions == 5
ReliableSources == 4
FloorEntries == 1

Min(a, b) == IF a <= b THEN a ELSE b

\* ------------------------------------------------------------- envelopes
Ok(d) == [success |-> TRUE, data |-> d]
Fail(e) == [success |-> FALSE, error |-> e]
\* shape: the Python container handed back under the result key
\* ("str", "list", or "dict" for a list wrapped once more in a dict)
Data(src, shape, n) == [src |-> src, shape |-> shape, n |-> n]
Guide(src, kt, ic, fc) ==
    [src |-> src, shape |-> "dict",
     key_terms |-> kt, important_concepts |-> ic, flashcards |-> fc]
\* Python None in a payload position
NoData == [src |-> "None", shape |-> "None", n |-> 0]

\* what a call site observes: the callee returned a dict, or raised
Returned(v) == [kind |-> "return", value |-> v]
Raised == [kind |-> "raise"]
\* a wrapper without that tier
NoTier == [kind |-> "none"]

\* provider answers seen by the primary tier
Responses == {"ok", "badjson", "exception"}

\* -------------------------------------------- primary tier (openai_helpers)
\* client: the API key was configured; resp: what the completion call did;
\* k: items in the answer that was accepted.  k = 0 is an answer without
\* the content asked for (an empty string, a JSON object without items):
\* the answer is passed on as it came.
openai_get_summary(client, resp, k) ==
    IF ~client THEN Fail("OpenAI API key not configured")
    ELSE IF resp = "exception" THEN Fail("Error generating summary")
    ELSE Ok(Data("primary", "str", k))

openai_get_resources(client, resp, k) ==
    IF ~client THEN Fail("OpenAI API key not configured")
    ELSE IF resp = "exception" THEN Fail("Error finding resources")
    ELSE IF resp = "badjson" THEN Fail("Error parsing JSON response")
    ELSE Ok(Data("primary", "dict", k))

openai_generate_study_guide(client, resp, k) ==
    IF ~client THEN Fail("OpenAI API key not configured")
    ELSE IF resp = "exception" THEN Fail("Error generating study guide")
    ELSE IF resp = "badjson" THEN Fail("Error parsing JSON response")
    ELSE Ok(Guide("primary", k, k, k))

\* generate_quiz without the test of the client
openai_generate_quiz_unguarded(client, resp, k) ==
    IF resp = "exception" THEN Fail("Error generating quiz")
    ELSE IF resp = "badjson" THEN Fail("Error parsing JSON response")
    ELSE Ok(Data("primary", "dict", k))

openai_generate_quiz(client, resp, k) ==
    IF ~client THEN Fail("OpenAI API key not configured")
    ELSE IF resp = "exception" THEN Fail("Error generating quiz")
    ELSE IF resp = "badjson" THEN Fail("Error parsing JSON response")
    ELSE Ok(Data("primary", "dict", k))

\* ------------------------------------------ secondary tier (free_ai_helpers)
\* gen: make_api_request returned text; boom: the body raised and the
\* function's own except clause caught it; k: items in the payload.
\* Summary, resources and notes build a local answer when gen is FALSE.
\* get_summary without the summary it builds from the text itself
free_get_summary_no_local(gen, boom, k) ==
    IF boom THEN Fail("Error generating summary")
    ELSE IF ~gen THEN Fail("Unable to generate summary")
    ELSE Ok(Data("secondary", "str", k))

free_get_summary(gen, boom, k) ==
    IF boom THEN Fail("Error generating summary")
    ELSE Ok(Data("secondary", "str", k))

free_get_resources(gen, boom, k, max_resources) ==
    IF boom THEN Fail("Error generating resources")
    ELSE IF ~gen THEN Ok(Data("secondary", "dict", Min(max_resources, ReliableSources)))
    ELSE Ok(Data("secondary", "dict", Min(max_resources, k)))

\* gen2 is the answer of the second request, to the flan-t5-xxl endpoint,
\* which is made only when the first returned nothing
\* k: entries a section has after parsing the answer and deriving from the
\* text; a section still empty then gets FloorEntries canned entries
free_generate_study_guide(gen, gen2, boom, k) ==
    IF boom THEN Fail("Error generating study guide")
    ELSE IF ~gen /\ ~gen2 THEN Fail("Unable to generate study guide. Please try again later.")
    ELSE LET n == IF k = 0 THEN FloorEntries ELSE k
         IN  Ok(Guide("secondary", n, n, n))

free_generate_quiz(gen, gen2, boom, k) ==
    IF boom THEN Fail("Error generating quiz")
    ELSE IF ~gen /\ ~gen2 THEN Fail("Unable to generate quiz. Please try again later.")
    ELSE Ok(Data("secondary", "dict", k))

generate_detailed_notes(gen, boom, k) ==
    IF boom THEN Fail("Error generating detailed notes")
    ELSE Ok(Data("secondary", "list", k))

\* ------------------------------------------- static tier (static_fallbacks)
\* pts: points the extraction finds; boom: the extraction raised.
\* get_static_summary whose except clause reports the failure
get_static_summary_reporting(pts, max_bullets, boom) ==
    IF boom THEN Fail("Error generating static summary")
    ELSE LET n == Min(pts, max_bullets)
         IN  Ok(Data("static", "str", IF n = 0 THEN CannedBullets ELSE n))

get_static_summary(pts, max_bullets, boom) ==
    IF boom THEN Ok(Data("static", "str", CannedBullets))
    ELSE LET n == Min(pts, max_bullets)
         IN  Ok(Data("static", "str", IF n = 0 THEN CannedBullets ELSE n))

get_static_resources(max_resources, boom) ==
    IF boom THEN Ok(Data("static", "list", 2))
    ELSE Ok(Data("static", "list", Min(ResourceTypes, max_resources)))

\* kt, ic, fc: key terms, concepts and flashcards the slides yield
generate_static_study_guide(kt, ic, fc, boom) ==
    IF boom THEN Ok(Guide("static", 3, 2, 2))
    ELSE LET c == Min(ic, ConceptCap)
             f == Min(fc, FlashcardCap)
         IN  Ok(Guide("static",
                      IF kt = 0 THEN CannedKeyTerms ELSE kt,
                      IF c = 0 THEN CannedConcepts ELSE c,
                      IF f = 0 THEN CannedFlashcards ELSE f))

\* generate_static_quiz without the generic questions that fill the quiz
generate_static_quiz_unfilled(slides, num_questions, boom) ==
    IF boom THEN Ok(Data("static", "list", 3))
    ELSE Ok(Data("static", "list", Min(slides, num_questions)))

\* slides: slides that qualify for a question
generate_static_quiz(slides, num_questions, boom) ==
    IF boom THEN Ok(Data("static", "list", 3))
    ELSE LET q == Min(slides, num_questions)
         IN  Ok(Data("static", "list",
                     IF q < num_questions
                     THEN q + Min(GenericQuestions, num_questions - q)
                     ELSE q))

\* groups: topic groups formed from the slides (0: no slide found); the
\* payload counts the markdown blocks: the heading and one per section
generate_static_topic_notes(groups, max_sections, boom) ==
    IF boom THEN Ok(Data("static", "str", 4))
    ELSE IF groups = 0 THEN Ok(Data("static", "str", 4))
    ELSE Ok(Data("static", "str", 1 + Min(groups, max_sections)))

\* ------------------------------------- fallback wrappers (content_processor)
\* p, s: what the call of the primary / secondary tier does when it is made
\* (for the primary this includes the in-function import); st: the dict the
\* static function returns.  The result is the dict returned and the log of
\* the tier calls made, in order.
Tier(t, out) == [out |-> out, tier |-> t]

get_summary(p, s, st) ==
    IF p.kind = "raise"
    THEN [log |-> <<Tier("primary", p), Tier("static", Returned(st))>>, ret |-> st]
    ELSE IF p.value.success
    THEN [log |-> <<Tier("primary", p)>>, ret |-> p.value]
    ELSE IF s.kind = "raise"
    THEN [log |-> <<Tier("primary", p), Tier("secondary", s),
                    Tier("static", Returned(st))>>, ret |-> st]
    ELSE IF s.value.success
    THEN [log |-> <<Tier("primary", p), Tier("secondary", s)>>, ret |-> s.value]
    ELSE [log |-> <<Tier("primary", p), Tier("secondary", s),
                    Tier("static", Returned(st))>>, ret |-> st]

\* get_resources falling through to the static tier after the secondary
\* tier succeeded
get_resources_falling_through(p, s, st) ==
    IF p.kind = "raise"
    THEN [log |-> <<Tier("primary", p), Tier("static", Returned(st))>>, ret |-> st]
    ELSE IF p.value.success
    THEN [log |-> <<Tier("primary", p)>>, ret |-> p.value]
    ELSE [log |-> <<Tier("primary", p), Tier("secondary", s),
                    Tier("static", Returned(st))>>, ret |-> st]

get_resources(p, s, st) ==
    IF p.kind = "raise"
    THEN [log |-> <<Tier("primary", p), Tier("static", Returned(st))>>, ret |-> st]
    ELSE IF p.value.success
    THEN [log |-> <<Tier("primary", p)>>, ret |-> p.value]
    ELSE IF s.kind = "raise"
    THEN [log |-> <<Tier("primary", p), Tier("secondary", s),
                    Tier("static", Returned(st))>>, ret |-> st]
    ELSE IF s.value.success
    THEN [log |-> <<Tier("primary", p), Tier("secondary", s)>>, ret |-> s.value]
    ELSE [log |-> <<Tier("primary", p), Tier("secondary", s),
                    Tier("static", Returned(st))>>, ret |-> st]

generate_study_guide(p, s, st) ==
    IF p.kind = "raise"
    THEN [log |-> <<Tier("primary", p), Tier("static", Returned(st))>>, ret |-> st]
    ELSE IF p.value.success
    THEN [log |-> <<Tier("primary", p)>>, ret |-> p.value]
    ELSE IF s.kind = "raise"
    THEN [log |-> <<Tier("primary", p), Tier("secondary", s),
                    Tier("static", Returned(st))>>, ret |-> st]
    ELSE IF s.value.success
    THEN [log |-> <<Tier("primary", p), Tier("secondary", s)>>, ret |-> s.value]
    ELSE [log |-> <<Tier("primary", p), Tier("secondary", s),
                    Tier("static", Returned(st))>>, ret |-> st]

\* generate_quiz going from a failed primary tier straight to the static tier
generate_quiz_skipping_secondary(p, s, st) ==
    IF p.kind = "return" /\ p.value.success
    THEN [log |-> <<Tier("primary", p)>>, ret |-> p.value]
    ELSE [log |-> <<Tier("primary", p), Tier("static", Returned(st))>>, ret |-> st]

generate_quiz(p, s, st) ==
    IF p.kind = "raise"
    THEN [log |-> <<Tier("primary", p), Tier("static", Returned(st))>>, ret |-> st]
    ELSE IF p.value.success
    THEN [log |-> <<Tier("primary", p)>>, ret |-> p.value]
    ELSE IF s.kind = "raise"
    THEN [log |-> <<Tier("primary", p), Tier("secondary", s),
                    Tier("static", Returned(st))>>, ret |-> st]
    ELSE IF s.value.success
    THEN [log |-> <<Tier("primary", p), Tier("secondary", s)>>, ret |-> s.value]
    ELSE [log |-> <<Tier("primary", p), Tier("secondary", s),
                    Tier("static", Returned(st))>>, ret |-> st]

\* generate_topic_notes without the static tier: a failure the secondary
\* tier returns is returned
generate_topic_notes_no_static(s, st) ==
    IF s.kind = "raise"
    THEN [log |-> <<Tier("secondary", s), Tier("static", Returned(st))>>, ret |-> st]
    ELSE [log |-> <<Tier("secondary", s)>>, ret |-> s.value]

\* the notes wrapper has no primary tier
generate_topic_notes(s, st) ==
    IF s.kind = "raise"
    THEN [log |-> <<Tier("secondary", s), Tier("static", Returned(st))>>, ret |-> st]
    ELSE IF s.value.success
    THEN [log |-> <<Tier("secondary", s)>>, ret |-> s.value]
    ELSE [log |-> <<Tier("secondary", s), Tier("static", Returned(st))>>, ret |-> st]

\* ------------------------------------------------ what the tiers can do
Items == 0..MaxItems
Counts == 1..MaxCount
\* an AI tier answers with an empty payload or with MaxItems items
Payloads == {0, MaxItems}

PrimarySummary ==
    {Raised} \cup {Returned(openai_get_summary(c, r, k)) :
                      c \in BOOLEAN, r \in Responses, k \in Payloads}
PrimaryResources ==
    {Raised} \cup {Returned(openai_get_resources(c, r, k)) :
                      c \in BOOLEAN, r \in Responses, k \in Payloads}
PrimaryStudyGuide ==
    {Raised} \cup {Returned(openai_generate_study_guide(c, r, k)) :
                      c \in BOOLEAN, r \in Responses, k \in Payloads}
PrimaryQuiz ==
    {Raised} \cup {Returned(openai_generate_quiz(c, r, k)) :
                      c \in BOOLEAN, r \in Responses, k \in Payloads}

SecondarySummary ==
    {Raised} \cup {Returned(free_get_summary(g, b, k)) :
                      g \in BOOLEAN, b \in BOOLEAN, k \in Payloads}
SecondaryResources(max_resources) ==
    {Raised} \cup {Returned(free_get_resources(g, b, k, max_resources)) :
                      g \in BOOLEAN, b \in BOOLEAN, k \in Payloads}
SecondaryStudyGuide ==
    {Raised} \cup {Returned(free_generate_study_guide(g, h, b, k)) :
                      g \in BOOLEAN, h \in BOOLEAN, b \in BOOLEAN, k \in Payloads}
SecondaryQuiz ==
    {Raised} \cup {Returned(free_generate_quiz(g, h, b, k)) :
                      g \in BOOLEAN, h \in BOOLEAN, b \in BOOLEAN, k \in Payloads}
SecondaryNotes ==
    {Raised} \cup {Returned(generate_detailed_notes(g, b, k)) :
                      g \in BOOLEAN, b \in BOOLEAN, k \in Payloads}

StaticSummary(max_bullets) ==
    {get_static_summary(x, max_bullets, b) : x \in Items, b \in BOOLEAN}
StaticResources(max_resources) ==
    {get_static_resources(max_resources, b) : b \in BOOLEAN}
StaticStudyGuide ==
    {generate_static_study_guide(kt, ic, fc, b) :
        kt \in Items, ic \in Items, fc \in Items, b \in BOOLEAN}
StaticQuiz(num_questions) ==
    {generate_static_quiz(x, num_questions, b) : x \in Items, b \in BOOLEAN}
StaticNotes(max_sections) ==
    {generate_static_topic_notes(x, max_sections, b) : x \in Items, b \in BOOLEAN}

\* ------------------------------------------------------------ transcripts
\* A transcript is Python None, the empty string, or a text with `slides`
\* well-formed slides ("Slide n: title" followed by content); a text with
\* slides matches slide\s+\d+.  zip: the ZIP note was put in front.
NoneText == [kind |-> "None", slides |-> 0, zip |-> FALSE]
EmptyText == [kind |-> "empty", slides |-> 0, zip |-> FALSE]
Text(n) == [kind |-> "text", slides |-> n, zip |-> FALSE]
Texts == {Text(n) : n \in Items}

\* a truth test that takes the empty string for a transcript
Falsy_none_only(t) == t.kind = "None"
Falsy(t) == t.kind \in {"None", "empty"}
is_slide_content(t) == t.kind = "text" /\ t.slides > 0
ZipNote(t) == [t EXCEPT !.kind = "text", !.zip = TRUE]

\* ------------------------------------------------------------ program state
VARIABLES
    pc,          \* position of process_input: "idle" before the call, a
                 \* stage name while it runs, "returned" after it returned
    result,      \* the local dict `result` of process_input
    ret,         \* the dict process_input returned
    topic,       \* the local `topic` of process_input
    stages,      \* stages invoked by this run of process_input, with outcome
    tierLog,     \* tier calls made by the last stage's wrapper, in order
    tiersCalled, \* the tiers called by this run of process_input so far
    call         \* the last direct call of a wrapper

vars == <<pc, result, ret, topic, stages, tierLog, tiersCalled, call>>

EmptyResult ==
    [success |-> FALSE, error |-> "None", transcript |-> NoneText,
     summary |-> NoData, resources |-> NoData, study_guide |-> NoData,
     quiz |-> NoData, detailed_notes |-> NoData]

NotReturned == [pending |-> TRUE]
NoCall == [op |-> "none"]

Init ==
    /\ pc = "idle"
    /\ result = EmptyResult
    /\ ret = NotReturned
    /\ topic = "None"
    /\ stages = <<>>
    /\ tierLog = <<>>
    /\ tiersCalled = {}
    /\ call = NoCall

\* ------------------------------------------ direct calls of the wrappers
\* The wrappers are public functions (src/app.py calls four of them one by
\* one); text and counts are the caller's.  A wrapper keeps no state: the call is recorded with what the
\* tiers were set to do (p, s), the tier calls made and the dict returned.
DirectCall(op, p, s, w) ==
    /\ pc = "idle"
    /\ call' = [p |-> p, s |-> s, log |-> w.log, ret |-> w.ret, op |-> op]
    /\ UNCHANGED <<pc, result, ret, topic, stages, tierLog, tiersCalled>>

CallGetSummary ==
    \E p \in PrimarySummary, s \in SecondarySummary,
       n \in Counts \cup {DefaultMaxBullets} :
        \E st \in StaticSummary(n) :
            DirectCall("get_summary", p, s, get_summary(p, s, st))

\* the call of get_resources is recorded with the max_resources asked for
CallGetResources ==
    \E p \in PrimaryResources, n \in Counts \cup {DefaultMaxResources} :
        \E s \in SecondaryResources(n), st \in StaticResources(n) :
            LET w == get_resources(p, s, st) IN
            /\ pc = "idle"
            /\ call' = [p |-> p, s |-> s, log |-> w.log, ret |-> w.ret,
                        op |-> "get_resources", requested |-> n]
            /\ UNCHANGED <<pc, result, ret, topic, stages, tierLog, tiersCalled>>

CallGenerateStudyGuide ==
    \E p \in PrimaryStudyGuide, s \in SecondaryStudyGuide, st \in StaticStudyGuide :
        DirectCall("generate_study_guide", p, s, generate_study_guide(p, s, st))

CallGenerateQuiz ==
    \E p \in PrimaryQuiz, s \in SecondaryQuiz,
       n \in Counts \cup {DefaultNumQuestions} :
        \E st \in StaticQuiz(n) :
            DirectCall("generate_quiz", p, s, generate_quiz(p, s, st))

CallGenerateTopicNotes ==
    \E s \in SecondaryNotes, n \in Counts \cup {DefaultMaxSections} :
        \E st \in StaticNotes(n) :
            DirectCall("generate_topic_notes", NoTier, s, generate_topic_notes(s, st))

\* ------------------------------------------------- process_input, step 1
\* The ingestion functions are collaborators: the dict each returns is
\* part of the input.
YoutubeResults ==
    {[success |-> TRUE, transcript |-> t] : t \in {EmptyText, Text(0)}}
    \cup {Fail("Could not extract YouTube video ID from the URL."),
          Fail("Failed to get transcript")}
AudioResults ==
    {[success |-> TRUE, transcript |-> Text(0)],
     Fail("No speech detected in the audio file."),
     Fail("Error transcribing audio")}
VideoResults ==
    {[success |-> TRUE, audio_file |-> TRUE],
     Fail("No audio track found in the video file")}
FileResults ==
    {[success |-> TRUE, text |-> t] : t \in Texts}
    \cup {Fail("Unsupported file type"), Fail("No text content found in the PDF")}
ZipResults ==
    {[success |-> TRUE, text |-> t, file_count |-> 1] : t \in Texts}
    \cup {Fail("No valid files found in the ZIP archive")}

Inputs ==
    {[type |-> "text", content |-> t] : t \in {NoneText, EmptyText} \cup Texts}
    \cup {[type |-> "youtube", yt |-> r] : r \in YoutubeResults}
    \cup {[type |-> "audio", tr |-> r] : r \in AudioResults}
    \cup {[type |-> "file", tr |-> r, ext |-> "mp4", pf |-> v] :
             v \in VideoResults, r \in AudioResults}
    \cup {[type |-> "file", ext |-> "pdf", pf |-> f] : f \in FileResults}
    \cup {[type |-> "file", ext |-> "zip", pf |-> f] : f \in ZipResults}
    \cup {[type |-> "file", ext |-> "noname"]}
    \cup {[type |-> "image"]}

\* Step 1: [out |-> "go", result |-> r] when the code falls through to the
\* transcript test, [out |-> "return", ret |-> d] when it returns d early,
\* [out |-> "raise"] when it raises (an upload without a name).
GotTranscript(t) ==
    [out |-> "go", result |-> [EmptyResult EXCEPT !.transcript = t, !.success = TRUE]]
EarlyReturn(e) == [out |-> "return", ret |-> Fail(e)]

Step1(inp) ==
    IF inp.type = "text" THEN GotTranscript(inp.content)
    ELSE IF inp.type = "youtube"
    THEN IF inp.yt.success THEN GotTranscript(inp.yt.transcript)
         ELSE EarlyReturn(inp.yt.error)
    ELSE IF inp.type = "audio"
    THEN IF inp.tr.success THEN GotTranscript(inp.tr.transcript)
         ELSE EarlyReturn(inp.tr.error)
    ELSE IF inp.type = "file"
    THEN IF inp.ext = "noname" THEN [out |-> "raise"]
         ELSE IF inp.ext \in {"mp4", "mov", "avi", "mkv"}
         THEN IF inp.pf.success /\ "audio_file" \in DOMAIN inp.pf
              THEN IF inp.tr.success THEN GotTranscript(inp.tr.transcript)
                   ELSE EarlyReturn(inp.tr.error)
              ELSE EarlyReturn(inp.pf.error)
         ELSE IF inp.pf.success
              THEN IF inp.ext = "zip" /\ "file_count" \in DOMAIN inp.pf
                   THEN GotTranscript(ZipNote(inp.pf.text))
                   ELSE GotTranscript(inp.pf.text)
              ELSE EarlyReturn(inp.pf.error)
    ELSE EarlyReturn("Invalid input type")

\* One call of process_input up to the first stage: step 1, then the test
\* `result["success"] and result["transcript"]`.  process_input keeps
\* nothing between calls (result is a fresh local dict), so one call from
\* the initial state stands for every call.
Start ==
    /\ pc = "idle"
    /\ call = NoCall
    /\ \E inp \in Inputs :
        LET s1 == Step1(inp) IN
        IF s1.out = "raise"
        THEN /\ pc' = "returned"
             /\ result' = EmptyResult
             /\ ret' = Fail("Error processing input")
        ELSE IF s1.out = "return"
        THEN /\ pc' = "returned"
             /\ result' = EmptyResult
             /\ ret' = s1.ret
        ELSE IF s1.result.success /\ ~Falsy(s1.result.transcript)
        THEN /\ pc' = "TopicExtraction"
             /\ result' = s1.result
             /\ ret' = NotReturned
        ELSE /\ pc' = "returned"
             /\ result' = s1.result
             /\ ret' = Fail("Failed to process input: No valid transcript")
    /\ UNCHANGED <<topic, stages, tierLog, tiersCalled, call>>

\* ---------------------------------------------- process_input, the stages
\* kind: the stage's function returned or raised; ok: it returned success
StageDone(name, out) ==
    [kind |-> out.kind, ok |-> out.kind = "return" /\ out.value.success,
     stage |-> name]
TiersOf(log) == {log[i].tier : i \in 1..Len(log)}

\* lines 450-469: the topic comes from the slide information when the
\* transcript is slide content and that extraction did not fall back to
\* "general topic", else from extract_main_topics
TopicExtraction ==
    /\ pc = "TopicExtraction"
    /\ \E general \in BOOLEAN :
        topic' = IF is_slide_content(result.transcript) /\ ~general
                 THEN "slide topics" ELSE "main topic"
    /\ stages' = Append(stages, StageDone("TopicExtraction", Returned(Ok(NoData))))
    /\ pc' = "Summary"
    /\ UNCHANGED <<result, ret, tierLog, tiersCalled, call>>

\* a generation stage that goes on to the next stage after a failure
Stage_continuing(name, field, next, out, log) ==
    /\ pc = name
    /\ stages' = Append(stages, StageDone(name, out))
    /\ tierLog' = log
    /\ tiersCalled' = tiersCalled \cup TiersOf(log)
    /\ IF out.kind = "raise"
       THEN /\ result' = result
            /\ ret' = Fail("Error processing input")
            /\ pc' = "returned"
       ELSE IF out.value.success
       THEN /\ result' = [result EXCEPT ![field] = out.value.data]
            /\ ret' = ret
            /\ pc' = next
       ELSE /\ result' = [result EXCEPT !.error = out.value.error]
            /\ ret' = ret
            /\ pc' = next
    /\ UNCHANGED <<topic, call>>

\* A generation stage: out is what the call of the stage's function does,
\* log the tier calls it made.  On success the payload goes into
\* result[field] and the next stage follows; on failure result["error"] is
\* set and result is returned; an exception reaches the outer except.
Stage(name, field, next, out, log) ==
    /\ pc = name
    /\ stages' = Append(stages, StageDone(name, out))
    /\ tierLog' = log
    /\ tiersCalled' = tiersCalled \cup TiersOf(log)
    /\ IF out.kind = "raise"
       THEN /\ result' = result
            /\ ret' = Fail("Error processing input")
            /\ pc' = "returned"
       ELSE IF out.value.success
       THEN /\ result' = [result EXCEPT ![field] = out.value.data]
            /\ ret' = ret
            /\ pc' = next
       ELSE /\ result' = [result EXCEPT !.error = out.value.error]
            /\ ret' = [result EXCEPT !.error = out.value.error]
            /\ pc' = "returned"
    /\ UNCHANGED <<topic, call>>

\* a notes stage that reports a failure of the notes as the other stages do
NotesStage_reporting(out, log) ==
    /\ pc = "DetailedNotes"
    /\ stages' = Append(stages, StageDone("DetailedNotes", out))
    /\ tierLog' = log
    /\ tiersCalled' = tiersCalled \cup TiersOf(log)
    /\ IF out.kind = "raise"
       THEN /\ result' = result
            /\ ret' = Fail("Error processing input")
       ELSE IF out.value.success
       THEN LET r == [result EXCEPT !.detailed_notes = [notes |-> out.value.data],
                                    !.success = TRUE]
            IN  result' = r /\ ret' = r
       ELSE /\ result' = [result EXCEPT !.error = out.value.error]
            /\ ret' = [result EXCEPT !.error = out.value.error]
    /\ pc' = "returned"
    /\ UNCHANGED <<topic, call>>

\* Step 6: a failure of the notes is logged only; success is set and
\* result returned either way.
NotesStage(out, log) ==
    /\ pc = "DetailedNotes"
    /\ stages' = Append(stages, StageDone("DetailedNotes", out))
    /\ tierLog' = log
    /\ tiersCalled' = tiersCalled \cup TiersOf(log)
    /\ IF out.kind = "raise"
       THEN /\ result' = result
            /\ ret' = Fail("Error processing input")
       ELSE LET r == IF out.value.success
                     THEN [result EXCEPT !.detailed_notes = [notes |-> out.value.data]]
                     ELSE result
            IN  /\ result' = [r EXCEPT !.success = TRUE]
                /\ ret' = [r EXCEPT !.success = TRUE]
    /\ pc' = "returned"
    /\ UNCHANGED <<topic, call>>

\* The stages of the program call the wrappers with the default counts.
\* The static tier works on the transcript, a non-empty text on which its
\* extraction does not raise: n well-formed slides yield n points, terms,
\* concepts, flashcards, question slides and topic groups.
Summary ==
    \E p \in PrimarySummary, s \in SecondarySummary :
        LET st == get_static_summary(result.transcript.slides, DefaultMaxBullets, FALSE)
            w == get_summary(p, s, st)
        IN  Stage("Summary", "summary", "Resources", Returned(w.ret), w.log)

Resources ==
    \E p \in PrimaryResources, s \in SecondaryResources(DefaultMaxResources) :
        LET st == get_static_resources(DefaultMaxResources, FALSE)
            w == get_resources(p, s, st)
        IN  Stage("Resources", "resources", "StudyGuide", Returned(w.ret), w.log)

StudyGuide ==
    \E p \in PrimaryStudyGuide, s \in SecondaryStudyGuide :
        LET n == result.transcript.slides
            st == generate_static_study_guide(n, n, n, FALSE)
            w == generate_study_guide(p, s, st)
        IN  Stage("StudyGuide", "study_guide", "Quiz", Returned(w.ret), w.log)

Quiz ==
    \E p \in PrimaryQuiz, s \in SecondaryQuiz :
        LET st == generate_static_quiz(result.transcript.slides, DefaultNumQuestions, FALSE)
            w == generate_quiz(p, s, st)
        IN  Stage("Quiz", "quiz", "DetailedNotes", Returned(w.ret), w.log)

DetailedNotes ==
    \E s \in SecondaryNotes :
        LET st == generate_static_topic_notes(result.transcript.slides,
                                              DefaultMaxSections, FALSE)
            w == generate_topic_notes(s, st)
        IN  NotesStage(Returned(w.ret), w.log)

Next ==
    \/ CallGetSummary
    \/ CallGetResources
    \/ CallGenerateStudyGuide
    \/ CallGenerateQuiz
    \/ CallGenerateTopicNotes
    \/ Start
    \/ TopicExtraction
    \/ Summary
    \/ Resources
    \/ StudyGuide
    \/ Quiz
    \/ DetailedNotes

Spec == Init /\ [][Next]_vars

\* ------------------------------- process_input against its stage contract
\* process_input tests the "success" key of what each stage function
\* returns.  Here the stage functions are any functions that keep the
\* result contract (a dict with success and the payload, or with success
\* False and an error) or raise; the wrappers above are one such choice.
StageError(name) ==
    CASE name = "Summary" -> "summary failed"
      [] name = "Resources" -> "resources failed"
      [] name = "StudyGuide" -> "study guide failed"
      [] name = "Quiz" -> "quiz failed"
      [] OTHER -> "notes failed"

StageOutcomes(name, shape) ==
    {Raised, Returned(Fail(StageError(name)))}
    \cup {Returned(Ok(Data("stage", shape, k))) : k \in Items}

AnySummary ==
    \E out \in StageOutcomes("Summary", "str") :
        Stage("Summary", "summary", "Resources", out, <<>>)

AnyResources ==
    \E out \in StageOutcomes("Resources", "list") :
        Stage("Resources", "resources", "StudyGuide", out, <<>>)

AnyStudyGuide ==
    \E out \in StageOutcomes("StudyGuide", "dict") :
        Stage("StudyGuide", "study_guide", "Quiz", out, <<>>)

AnyQuiz ==
    \E out \in StageOutcomes("Quiz", "list") :
        Stage("Quiz", "quiz", "DetailedNotes", out, <<>>)

AnyDetailedNotes ==
    \E out \in StageOutcomes("DetailedNotes", "list") :
        NotesStage(out, <<>>)

NextStages ==
    \/ Start
    \/ TopicExtraction
    \/ AnySummary
    \/ AnyResources
    \/ AnyStudyGuide
    \/ AnyQuiz
    \/ AnyDetailedNotes

SpecStages == Init /\ [][NextStages]_vars


\* ------------------------------------------------------- quiz questions
\* A question is kept by the keys of its options and its answer letter.
Letters == {"A", "B", "C", "D"}
Question(opts, ans) == [options |-> opts, correct_answer |-> ans]

\* a successful result with the questions of its payload spelled out
WithQuestions(v, qs) ==
    IF v.success
    THEN Ok([src |-> v.data.src, shape |-> v.data.shape, n |-> v.data.n,
             questions |-> qs])
    ELSE v

\* primary tier: the parsed JSON is passed on as it came, so a question is
\* whatever the model answered
AnsweredQuestions ==
    {Question(o, a) : o \in {Letters, Letters \ {"D"}, Letters \cup {"E"}},
                      a \in Letters \cup {"E", "a"}}

\* secondary tier, one block of the answer: found are the letters matched
\* by ([A-D])[.)], the missing ones are padded; marker is the letter the
\* case-insensitive answer pattern captured ("none": no match, default A)
AnswerMarkers == Letters \cup {"a", "b", "c", "d", "none"}
free_parse_question(found, marker) ==
    Question(found \cup {l \in Letters : l \notin found},
             IF marker = "none" THEN "A" ELSE marker)

\* secondary tier: a fill-in-the-blank question made from a sentence
free_fill_question == Question(Letters, "A")

\* static tier: the question of a slide, the correct text shuffled to the
\* position pos; the generic questions; the canned quiz of the except clause
static_slide_question_without_correct(pos) == Question(Letters \ {pos}, pos)
static_slide_question(pos) == Question(Letters, pos)
generic_questions ==
    <<Question(Letters, "A"), Question(Letters, "D"), Question(Letters, "B"),
      Question(Letters, "C"), Question(Letters, "A")>>
canned_quiz ==
    <<Question(Letters, "A"), Question(Letters, "D"), Question(Letters, "B")>>

\* the outcomes of the three tiers for a quiz of one question
PrimaryQuizQuestions ==
    {Raised}
    \cup {Returned(WithQuestions(openai_generate_quiz(c, r, 1), <<q>>)) :
             c \in BOOLEAN, r \in Responses, q \in AnsweredQuestions}
SecondaryQuizQuestions ==
    {Raised}
    \cup {Returned(WithQuestions(free_generate_quiz(g, h, b, 1),
                                 <<free_parse_question(f, m)>>)) :
             g \in BOOLEAN, h \in BOOLEAN, b \in BOOLEAN,
             f \in SUBSET Letters, m \in AnswerMarkers}
    \cup {Returned(WithQuestions(free_generate_quiz(TRUE, FALSE, FALSE, 1),
                                 <<free_fill_question>>))}
StaticQuizQuestions ==
    {WithQuestions(generate_static_quiz(1, 1, FALSE), <<static_slide_question(l)>>) :
        l \in Letters}
    \cup {WithQuestions(generate_static_quiz(0, 1, FALSE), SubSeq(generic_questions, 1, 1)),
          WithQuestions(generate_static_quiz(0, 1, TRUE), canned_quiz)}

CallGenerateQuizQuestions ==
    \E p \in PrimaryQuizQuestions, s \in SecondaryQuizQuestions,
       st \in StaticQuizQuestions :
        DirectCall("generate_quiz", p, s, generate_quiz(p, s, st))

NextQuiz == CallGenerateQuizQuestions

SpecQuiz == Init /\ [][NextQuiz]_vars

\* ------------------------------------------- the primary tier on its own
\* The module creates the client once: it stays None when the key is not
\* set or when the constructor raises.
OpenAIClient(key, ctor) == key /\ ctor

\* A primary function called by itself, recorded with the credential
\* state, with what the completion call does if it is made, and with the
\* dict returned.
CallPrimary(op, key, ctor, resp, k, v) ==
    /\ pc = "idle"
    /\ call' = [resp |-> resp, k |-> k, ret |-> v, op |-> op,
                key |-> key, ctor |-> ctor]
    /\ UNCHANGED <<pc, result, ret, topic, stages, tierLog, tiersCalled>>

PrimaryGetSummary ==
    \E key \in BOOLEAN, ctor \in BOOLEAN, r \in Responses, k \in Items :
        CallPrimary("openai_get_summary", key, ctor, r, k,
                    openai_get_summary(OpenAIClient(key, ctor), r, k))
PrimaryGetResources ==
    \E key \in BOOLEAN, ctor \in BOOLEAN, r \in Responses, k \in Items :
        CallPrimary("openai_get_resources", key, ctor, r, k,
                    openai_get_resources(OpenAIClient(key, ctor), r, k))
PrimaryGenerateStudyGuide ==
    \E key \in BOOLEAN, ctor \in BOOLEAN, r \in Responses, k \in Items :
        CallPrimary("openai_generate_study_guide", key, ctor, r, k,
                    openai_generate_study_guide(OpenAIClient(key, ctor), r, k))
PrimaryGenerateQuiz ==
    \E key \in BOOLEAN, ctor \in BOOLEAN, r \in Responses, k \in Items :
        CallPrimary("openai_generate_quiz", key, ctor, r, k,
                    openai_generate_quiz(OpenAIClient(key, ctor), r, k))

NextPrimary ==
    \/ PrimaryGetSummary
    \/ PrimaryGetResources
    \/ PrimaryGenerateStudyGuide
    \/ PrimaryGenerateQuiz

SpecPrimary == Init /\ [][NextPrimary]_vars

\* ---------------------------------- the secondary tier under its wrapper
\* A wrapper call recorded with what make_api_request gave the secondary
\* function (gen, and gen2 for the second request of the study guide and
\* of the quiz; the other functions make one request) and with whether the
\* function's body raised.
CallSecondary(op, p, gen, gen2, boom, v, w) ==
    /\ pc = "idle"
    /\ call' = [gen |-> gen, boom |-> boom, gen2 |-> gen2, p |-> p,
                s |-> Returned(v), log |-> w.log, ret |-> w.ret, op |-> op]
    /\ UNCHANGED <<pc, result, ret, topic, stages, tierLog, tiersCalled>>

SecondaryGetSummary ==
    \E p \in PrimarySummary, g \in BOOLEAN, b \in BOOLEAN, k \in Payloads,
       n \in Counts \cup {DefaultMaxBullets} :
        \E st \in StaticSummary(n) :
            LET v == free_get_summary(g, b, k) IN
            CallSecondary("get_summary", p, g, FALSE, b, v,
                          get_summary(p, Returned(v), st))
SecondaryGetResources ==
    \E p \in PrimaryResources, g \in BOOLEAN, b \in BOOLEAN, k \in Payloads,
       n \in Counts \cup {DefaultMaxResources} :
        \E st \in StaticResources(n) :
            LET v == free_get_resources(g, b, k, n) IN
            CallSecondary("get_resources", p, g, FALSE, b, v,
                          get_resources(p, Returned(v), st))
SecondaryGenerateStudyGuide ==
    \E p \in PrimaryStudyGuide, g \in BOOLEAN, h \in BOOLEAN, b \in BOOLEAN,
       k \in Payloads, st \in StaticStudyGuide :
        LET v == free_generate_study_guide(g, h, b, k) IN
        CallSecondary("generate_study_guide", p, g, h, b, v,
                      generate_study_guide(p, Returned(v), st))
SecondaryGenerateQuiz ==
    \E p \in PrimaryQuiz, g \in BOOLEAN, h \in BOOLEAN, b \in BOOLEAN,
       k \in Payloads, n \in Counts \cup {DefaultNumQuestions} :
        \E st \in StaticQuiz(n) :
            LET v == free_generate_quiz(g, h, b, k) IN
            CallSecondary("generate_quiz", p, g, h, b, v,
                          generate_quiz(p, Returned(v), st))
SecondaryGenerateDetailedNotes ==
    \E g \in BOOLEAN, b \in BOOLEAN, k \in Payloads,
       n \in Counts \cup {DefaultMaxSections} :
        \E st \in StaticNotes(n) :
            LET v == generate_detailed_notes(g, b, k) IN
            CallSecondary("generate_topic_notes", NoTier, g, FALSE, b, v,
                          generate_topic_notes(Returned(v), st))

NextSecondary ==
    \/ SecondaryGetSummary
    \/ SecondaryGetResources
    \/ SecondaryGenerateStudyGuide
    \/ SecondaryGenerateQuiz
    \/ SecondaryGenerateDetailedNotes

SpecSecondary == Init /\ [][NextSecondary]_vars

\* ---------------------------------------------------- extract_main_topics
\* A text is a sequence of tokens.  "word" is a word of more than three
\* letters that is no stop word, "it" a stop word of two letters, "1" a
\* number, "Slide" the word that opens a slide title, "topic" one of the
\* marker words (in any case), ":" and "." the punctuation the code looks
\* for, "nl" a line break.  Words are separated by white space;
\* punctuation follows the word before it.  A topic is a sequence of
\* words; the empty sequence is "".
MarkerMinWords == 3
MarkerMaxWords == 10
TitleMaxWords == 5
TitleMinChars == 3
PhraseMin == 10
PhraseMax == 30
PhraseWords == 7
ShortestWords == 5
FallbackWords == 5
SentencesRead == 10
TopicsJoined == 3

IsWord(t) == t \notin {":", ".", "nl"}
IsLong(t) == t \in {"word", "topic", "Slide"}
Take(sq, n) == SubSeq(sq, 1, Min(n, Len(sq)))
Drop(sq, n) == SubSeq(sq, n + 1, Len(sq))
First(S) == CHOOSE i \in S : \A j \in S : i <= j

\* lines 48-49: every character that is neither a word character nor
\* white space becomes a blank, runs of white space become one blank, and
\* the ends are stripped; the words are left
Clean(text) == SelectSeq(text, IsWord)

\* lines 52-60: the first keyword found, the text from there to the next
\* period, accepted with 3 to 10 words; the set is empty when the scan
\* returns nothing
marker_scan(t) ==
    LET at == {i \in 1..(Len(t) - 1) : t[i] = "topic" /\ t[i + 1] = ":"}
    IN  IF at = {} THEN {}
        ELSE LET idx == First(at) + 2
                 dots == {j \in idx..Len(t) : t[j] = "."}
             IN  IF dots = {} THEN {}
                 ELSE LET phrase == SubSeq(t, idx, First(dots) - 1)
                          n == Len(SelectSeq(phrase, IsWord))
                      IN  IF MarkerMinWords <= n /\ n <= MarkerMaxWords
                          THEN {phrase} ELSE {}

\* lines 63-64: findall of Slide \d+:?\s*([^0-9\n]+?)(?:\d|$): a title runs
\* to the next digit, which the match consumes, or to the end of the text
RECURSIVE slide_titles(_)
slide_titles(t) ==
    IF Len(t) < 3 THEN <<>>
    ELSE IF t[1] = "Slide" /\ t[2] = "1"
    THEN LET rest == Drop(t, 2)
             digits == {j \in 1..Len(rest) : rest[j] = "1"}
             stop == IF digits = {} THEN Len(rest) + 1 ELSE First(digits)
         IN  <<Take(rest, stop - 1)>> \o slide_titles(Drop(rest, stop))
    ELSE slide_titles(Tail(t))

CharsOf(t) == CASE t \in {"topic", "Slide"} -> 5 [] t = "word" -> 4
                [] t = "it" -> 2 [] OTHER -> 1
RECURSIVE Chars(_)
Chars(ws) ==
    IF ws = <<>> THEN 0
    ELSE IF Len(ws) = 1 THEN CharsOf(ws[1])
    ELSE CharsOf(ws[1]) + 1 + Chars(Tail(ws))

GoodTitle(ws) == Len(ws) <= TitleMaxWords /\ Chars(ws) > TitleMinChars
Count(sq, x) == Cardinality({i \in 1..Len(sq) : sq[i] = x})

\* lines 65-70: the most common of the titles kept; max over a set takes
\* any of the most common ones
slide_title_topic(t) ==
    LET filtered == SelectSeq(slide_titles(t), GoodTitle)
        titles == {filtered[i] : i \in 1..Len(filtered)}
    IN  {x \in titles : \A y \in titles : Count(filtered, y) <= Count(filtered, x)}

\* the text cut at its periods, empty parts dropped
RECURSIVE split_sentences(_)
split_sentences(t) ==
    LET dots == {j \in 1..Len(t) : t[j] = "."}
    IN  IF t = <<>> THEN <<>>
        ELSE IF dots = {} THEN <<t>>
        ELSE LET d == First(dots)
             IN  (IF d = 1 THEN <<>> ELSE <<Take(t, d - 1)>>)
                 \o split_sentences(Drop(t, d))

HasFrequentWord(sent) == \E i \in 1..Len(sent) : IsLong(sent[i])

\* lines 101-108: the first candidate of at most 30 words
RECURSIVE first_good(_)
first_good(cs) ==
    IF cs = <<>> THEN {}
    ELSE LET n == Len(Head(cs))
         IN  IF PhraseMin <= n /\ n <= PhraseMax
             THEN {Take(Head(cs), PhraseWords)}
             ELSE IF n < PhraseMin THEN {Head(cs)}
             ELSE first_good(Tail(cs))

\* lines 73-116.  nltk: the tokenizer data is there; without it
\* word_tokenize raises and the bare except passes.  The words kept are
\* those of more than three letters that are no stop words; a model text
\* has fewer than 15 different ones, so each is among the most common.
frequency_topic(t, nltk) ==
    IF ~nltk THEN {}
    ELSE LET sentences == Take(split_sentences(t), SentencesRead)
             topic_candidates == SelectSeq(sentences, HasFrequentWord)
         IN  IF topic_candidates = <<>> THEN {}
             ELSE IF first_good(topic_candidates) # {}
             THEN first_good(topic_candidates)
             ELSE LET m == First({i \in 1..Len(topic_candidates) :
                                   \A j \in 1..Len(topic_candidates) :
                                      Len(topic_candidates[i]) <= Len(topic_candidates[j])})
                  IN  {Take(topic_candidates[m], ShortestWords)}

\* lines 118-129
fallback_topic(t) ==
    LET dots == {j \in 1..Len(t) : t[j] = "."}
        first_sentence == IF dots = {} THEN t ELSE Take(t, First(dots) - 1)
        words == SelectSeq(first_sentence, IsWord)
        clean_words == Take(SelectSeq(words, IsLong), FallbackWords)
    IN  IF clean_words = <<>> /\ words # <<>> THEN Take(words, FallbackWords)
        ELSE clean_words

\* The topics extract_main_topics can return for a text.  The outer except
\* clause (131-136) is not reached for a string: the regular expressions
\* do not raise and the NLTK calls have their own except clauses.
extract_main_topics(text, nltk) ==
    LET t == Clean(text)
    IN  IF marker_scan(t) # {} THEN marker_scan(t)
        ELSE IF slide_title_topic(t) # {} THEN slide_title_topic(t)
        ELSE IF frequency_topic(t, nltk) # {} THEN frequency_topic(t, nltk)
        ELSE {fallback_topic(t)}

\* line 451: slide\s+\d+, in any case
is_slide_text(text) ==
    \E i \in 1..(Len(text) - 1) : text[i] = "Slide" /\ text[i + 1] = "1"

\* line 185: the topic split at ", "; a topic is made of words only
main_topics(tp) == <<tp>>

\* line 461: the first three topics joined by ", "
RECURSIVE join_topics(_)
join_topics(ts) ==
    IF ts = <<>> THEN <<>>
    ELSE IF Len(ts) = 1 THEN ts[1]
    ELSE ts[1] \o <<",">> \o join_topics(Tail(ts))

\* lines 450-469.  general: extract_slide_information raised and gave
\* "general topic"
select_topic(text, nltk, general) ==
    IF is_slide_text(text) /\ ~general
    THEN {join_topics(Take(main_topics(tp), TopicsJoined)) :
             tp \in extract_main_topics(text, nltk)}
    ELSE extract_main_topics(text, nltk)

\* The texts tried: up to MaxPieces pieces one after the other, and the
\* text "Topic: Quantum Computing Basics. It is fascinating."
MaxPieces == 4
RunLen == PhraseMin
Run(n) == [i \in 1..n |-> "word"]
Pieces ==
    {<<"topic", ":">>, <<".">>, <<"it">>, <<"Slide", "1">>, <<"1">>,
     Run(1), Run(MarkerMinWords), Run(RunLen)}
RECURSIVE TextsOf(_)
TextsOf(n) ==
    IF n = 0 THEN {<<>>}
    ELSE LET shorter == TextsOf(n - 1)
         IN  shorter \cup {x \o y : x \in shorter, y \in Pieces}
QuantumText ==
    <<"topic", ":", "word", "word", "word", ".", "it", "it", "word", ".">>
\* three headers "Slide N: Neural Networks" and one "Slide N: Intro", a
\* header to a line
NeuralText ==
    <<"Slide", "1", ":", "word", "word", "nl",
      "Slide", "1", ":", "word", "word", "nl",
      "Slide", "1", ":", "word", "word", "nl",
      "Slide", "1", ":", "word">>
\* two headers with different titles, a number after the first title
TiedTitlesText ==
    <<"Slide", "1", ":", "word", "1", "nl", "Slide", "1", ":", "word", "word">>
TopicTexts == TextsOf(MaxPieces) \cup {QuantumText, NeuralText, TiedTitlesText}

\* a text put in, and whether the NLTK data is installed
InitTopic ==
    /\ pc = "idle"
    /\ result = EmptyResult
    /\ ret = NotReturned
    /\ topic = "None"
    /\ stages = <<>>
    /\ tierLog = <<>>
    /\ tiersCalled = {}
    /\ call \in {[op |-> "text", text |-> text, nltk |-> nltk] :
                    text \in TopicTexts, nltk \in BOOLEAN}

ExtractMainTopics ==
    /\ pc = "idle"
    /\ call.op = "text"
    /\ \E tp \in extract_main_topics(call.text, call.nltk) :
        call' = [ret |-> tp, op |-> "extract_main_topics",
                 text |-> call.text, nltk |-> call.nltk]
    /\ UNCHANGED <<pc, result, ret, topic, stages, tierLog, tiersCalled>>

\* the topic process_input hands to get_resources for a transcript that
\* passed the truth test of line 449
SelectTopic ==
    /\ pc = "idle"
    /\ call.op = "text"
    /\ call.text # <<>>
    /\ \E general \in BOOLEAN :
        \E tp \in select_topic(call.text, call.nltk, general) :
            call' = [ret |-> tp, op |-> "process_input topic",
                     text |-> call.text, nltk |-> call.nltk]
    /\ UNCHANGED <<pc, result, ret, topic, stages, tierLog, tiersCalled>>

NextTopic ==
    \/ ExtractMainTopics
    \/ SelectTopic

SpecTopic == InitTopic /\ [][NextTopic]_vars

\* ------------------------------------------------------- make_api_request
\* One secondary function, or a caller of make_api_request itself, and the
\* requests it makes.  `call` is the activation of make_api_request: its
\* position, its locals, the attempts sent and the waits slept so far.
DefaultMaxRetries == 3
BackoffBase == 2
\* a wait is counted in units of 1/Resolution second
Resolution == 2

\* three of the six FREE_ENDPOINTS; the first is PREFERRED_ENDPOINT
Endpoints == {"llama-4", "flan-t5-xxl", "bart-large-cnn"}
PreferredEndpoint == "llama-4"
LastChanceEndpoint == "flan-t5-xxl"

\* the endpoints get_random_endpoint can return: with a token it returns
\* the preferred one four times in five, else any of the list
get_random_endpoint(hf_token) ==
    IF hf_token THEN {PreferredEndpoint} \cup Endpoints ELSE Endpoints

\* line 176: (2 ** attempt) + random.uniform(0, 1)
backoff_wait_flat(attempt, jitter) == BackoffBase * Resolution + jitter
backoff_wait(attempt, jitter) == (BackoffBase ^ attempt) * Resolution + jitter

SecondaryCallers ==
    {"get_summary", "get_resources", "generate_detailed_notes",
     "generate_study_guide", "generate_quiz"}
TwoRequestCallers == {"generate_study_guide", "generate_quiz"}

\* make_api_request entered: request n of the caller, `total` attempts
\* made by the caller before, `first` what its first request returned
NewRequest(caller, n, max_retries, endpoint, total, first) ==
    [ret |-> "-", op |-> "make_api_request", pos |-> "loop", sent |-> <<>>,
     attempt |-> 0, caller |-> caller, max_retries |-> max_retries,
     endpoint |-> endpoint, total |-> total, first |-> first,
     request |-> n, slept |-> <<>>, answer |-> NotReturned, raised |-> FALSE]

\* lines 98-99: without an endpoint argument the first endpoint is drawn
InitRequest ==
    /\ pc = "idle"
    /\ result = EmptyResult
    /\ ret = NotReturned
    /\ topic = "None"
    /\ stages = <<>>
    /\ tierLog = <<>>
    /\ tiersCalled = {}
    /\ call \in
        {NewRequest(c, 1, DefaultMaxRetries, e, 0, "-") :
            c \in SecondaryCallers, e \in get_random_endpoint(FALSE)}
        \cup {NewRequest("direct", 1, m, e, 0, "-") :
                 m \in 0..DefaultMaxRetries, e \in Endpoints}

Attempting ==
    /\ pc = "idle"
    /\ call.op = "make_api_request"
    /\ call.pos = "loop"
    /\ call.attempt < call.max_retries

Sent(status) == Append(call.sent, [endpoint |-> call.endpoint, status |-> status])

\* a response of status 200 after which the loop goes on
Respond200_continuing ==
    /\ Attempting
    /\ call' = [call EXCEPT !.sent = Sent("200"), !.total = @ + 1,
                            !.attempt = @ + 1]
    /\ UNCHANGED <<pc, result, ret, topic, stages, tierLog, tiersCalled>>

\* lines 159-171: status 200 and a body that decodes; the text returned
\* is generated_text, which can be empty, or str() of the body
Respond200 ==
    /\ Attempting
    /\ \E body \in {"text", ""} :
        call' = [call EXCEPT !.sent = Sent("200"), !.total = @ + 1,
                             !.pos = "done", !.ret = body]
    /\ UNCHANGED <<pc, result, ret, topic, stages, tierLog, tiersCalled>>

\* lines 174-179: status 429; the sleep is part of the step
RateLimited ==
    /\ Attempting
    /\ \E jitter \in 0..(Resolution - 1) :
        call' = [call EXCEPT !.sent = Sent("429"), !.total = @ + 1,
                             !.slept = Append(@, [attempt |-> call.attempt,
                                                  wait |-> backoff_wait(call.attempt, jitter)]),
                             !.attempt = @ + 1]
    /\ UNCHANGED <<pc, result, ret, topic, stages, tierLog, tiersCalled>>

\* lines 181-188: another status, an exception of requests.post, or a
\* status 200 whose body response.json() cannot decode
Failures == {"other status", "exception", "200 undecodable"}
next_endpoint_other(failed, hf_token) ==
    IF get_random_endpoint(hf_token) \ {failed} = {} THEN {failed}
    ELSE get_random_endpoint(hf_token) \ {failed}
next_endpoint(failed, hf_token) == get_random_endpoint(hf_token)

AttemptFailed ==
    /\ Attempting
    /\ \E status \in Failures, hf_token \in BOOLEAN :
        \E e \in next_endpoint(call.endpoint, hf_token) :
            call' = [call EXCEPT !.sent = Sent(status), !.total = @ + 1,
                                 !.endpoint = e, !.attempt = @ + 1]
    /\ UNCHANGED <<pc, result, ret, topic, stages, tierLog, tiersCalled>>

\* line 190: the loop is over
Exhausted ==
    /\ pc = "idle"
    /\ call.op = "make_api_request"
    /\ call.pos = "loop"
    /\ call.attempt >= call.max_retries
    /\ call' = [call EXCEPT !.pos = "done", !.ret = "None"]
    /\ UNCHANGED <<pc, result, ret, topic, stages, tierLog, tiersCalled>>

\* `if not generated_text`
Nothing(text) == text \in {"None", ""}

\* a second request that starts at the endpoint the first one ended with
SecondRequest_unpinned ==
    /\ pc = "idle"
    /\ call.op = "make_api_request"
    /\ call.pos = "done"
    /\ call.request = 1
    /\ call.caller \in TwoRequestCallers
    /\ Nothing(call.ret)
    /\ call' = NewRequest(call.caller, 2, DefaultMaxRetries,
                          call.endpoint, call.total, call.ret)
    /\ UNCHANGED <<pc, result, ret, topic, stages, tierLog, tiersCalled>>

\* lines 657-661 and 951-954: the study guide and the quiz ask flan-t5-xxl
\* after a first request that returned nothing
SecondRequest ==
    /\ pc = "idle"
    /\ call.op = "make_api_request"
    /\ call.pos = "done"
    /\ call.request = 1
    /\ call.caller \in TwoRequestCallers
    /\ Nothing(call.ret)
    /\ call' = NewRequest(call.caller, 2, DefaultMaxRetries,
                          LastChanceEndpoint, call.total, call.ret)
    /\ UNCHANGED <<pc, result, ret, topic, stages, tierLog, tiersCalled>>

\* what the caller returns: gen and gen2 say whether its first and its
\* second request returned text
CallerResult(caller, gen, gen2, boom, k) ==
    CASE caller = "get_summary" -> free_get_summary(gen, boom, k)
      [] caller = "get_resources" ->
            free_get_resources(gen, boom, k, DefaultMaxResources)
      [] caller = "generate_detailed_notes" -> generate_detailed_notes(gen, boom, k)
      [] caller = "generate_study_guide" ->
            free_generate_study_guide(gen, gen2, boom, k)
      [] OTHER -> free_generate_quiz(gen, gen2, boom, k)

\* the secondary function goes on with what its last request returned: it
\* parses the text, or builds its answer locally, or gives up
CallerReturns ==
    /\ pc = "idle"
    /\ call.op = "make_api_request"
    /\ call.pos = "done"
    /\ call.caller \in SecondaryCallers
    /\ \/ call.caller \notin TwoRequestCallers
       \/ call.request = 2
       \/ ~Nothing(call.ret)
    /\ \E boom \in BOOLEAN, k \in Payloads :
        call' = [call EXCEPT
                   !.pos = "returned",
                   !.raised = boom,
                   !.answer = CallerResult(call.caller,
                                           call.request = 1 /\ ~Nothing(call.ret),
                                           call.request = 2 /\ ~Nothing(call.ret),
                                           boom, k)]
    /\ UNCHANGED <<pc, result, ret, topic, stages, tierLog, tiersCalled>>

NextRequest ==
    \/ Respond200
    \/ RateLimited
    \/ AttemptFailed
    \/ Exhausted
    \/ SecondRequest
    \/ CallerReturns

SpecRequest == InitRequest /\ [][NextRequest]_vars /\ WF_vars(NextRequest)

\* ------------------------------------------------ the text put in a prompt
\* A transcript is taken by its length in characters.
TextBudget == 10000
\* lengths tried: up to MaxOver characters below and above the budget
MaxOver == 8
TextLengths == {0} \cup ((TextBudget - MaxOver)..(TextBudget + MaxOver))
Ellipsis == Len(<<".", ".", ".">>)

\* what each prompt holds of a text of n characters: the characters of the
\* transcript kept, and the length of the string put in the prompt
\* openai_helpers: {text} goes in as it is
primary_prompt_text(n) == [kept |-> n, chars |-> n]
\* free_ai_helpers: text[:10000] + "..." if len(text) > 10000 else text
secondary_prompt_text(n) ==
    IF n > TextBudget THEN [kept |-> TextBudget, chars |-> TextBudget + Ellipsis]
    ELSE [kept |-> n, chars |-> n]

PrimaryTextOps ==
    {"openai_get_summary", "openai_generate_study_guide", "openai_generate_quiz"}
SecondaryTextOps ==
    {"get_summary", "generate_detailed_notes", "generate_study_guide",
     "generate_quiz"}

InitPrompt ==
    /\ pc = "idle"
    /\ result = EmptyResult
    /\ ret = NotReturned
    /\ topic = "None"
    /\ stages = <<>>
    /\ tierLog = <<>>
    /\ tiersCalled = {}
    /\ call \in {[op |-> "text", text |-> n] : n \in TextLengths}

PrimaryPrompt ==
    /\ pc = "idle"
    /\ call.op = "text"
    /\ \E f \in PrimaryTextOps :
        call' = [tier |-> "primary", op |-> f, text |-> call.text,
                 prompt |-> primary_prompt_text(call.text)]
    /\ UNCHANGED <<pc, result, ret, topic, stages, tierLog, tiersCalled>>

SecondaryPrompt ==
    /\ pc = "idle"
    /\ call.op = "text"
    /\ \E f \in SecondaryTextOps :
        call' = [tier |-> "secondary", op |-> f, text |-> call.text,
                 prompt |-> secondary_prompt_text(call.text)]
    /\ UNCHANGED <<pc, result, ret, topic, stages, tierLog, tiersCalled>>

NextPrompt ==
    \/ PrimaryPrompt
    \/ SecondaryPrompt

SpecPrompt == InitPrompt /\ [][NextPrompt]_vars

\* ------------------------------------------- generate_static_quiz, twice
\* The questions of one run.  slides: slides that qualify for a question;
\* shuffled: for each slide question, the letter random.shuffle leaves the
\* correct text at; boom: the body raised, which depends on the text only.
static_quiz_questions(slides, num_questions, boom, shuffled) ==
    IF boom THEN canned_quiz
    ELSE LET q == Min(slides, num_questions)
             from_slides == [i \in 1..q |-> static_slide_question(shuffled[i])]
         IN  IF q < num_questions
             THEN from_slides \o Take(generic_questions, num_questions - q)
             ELSE from_slides

Shuffles(slides, num_questions) ==
    [1..Min(slides, num_questions) -> Letters]

InitStaticQuiz ==
    /\ pc = "idle"
    /\ result = EmptyResult
    /\ ret = NotReturned
    /\ topic = "None"
    /\ stages = <<>>
    /\ tierLog = <<>>
    /\ tiersCalled = {}
    /\ call \in {[boom |-> b, slides |-> x, num_questions |-> n, op |-> "text"] :
                    b \in BOOLEAN, x \in Items,
                    n \in Counts \cup {DefaultNumQuestions}}

FirstRun ==
    /\ pc = "idle"
    /\ call.op = "text"
    /\ \E sh \in Shuffles(call.slides, call.num_questions) :
        call' = [boom |-> call.boom, slides |-> call.slides,
                 num_questions |-> call.num_questions,
                 op |-> "generate_static_quiz",
                 first |-> static_quiz_questions(call.slides, call.num_questions,
                                                 call.boom, sh)]
    /\ UNCHANGED <<pc, result, ret, topic, stages, tierLog, tiersCalled>>

SecondRun ==
    /\ pc = "idle"
    /\ call.op = "generate_static_quiz"
    /\ \E sh \in Shuffles(call.slides, call.num_questions) :
        call' = [boom |-> call.boom, slides |-> call.slides,
                 num_questions |-> call.num_questions,
                 op |-> "generate_static_quiz again",
                 first |-> call.first,
                 second |-> static_quiz_questions(call.slides, call.num_questions,
                                                  call.boom, sh)]
    /\ UNCHANGED <<pc, result, ret, topic, stages, tierLog, tiersCalled>>

NextStaticQuiz ==
    \/ FirstRun
    \/ SecondRun

SpecStaticQuiz == InitStaticQuiz /\ [][NextStaticQuiz]_vars

\* --------------------------------------------- study guide floor defaults
\* The sections of a study guide, by the number of entries each has after
\* parsing and after the fallbacks that derive entries from the text.
secondary_floor_none(n) == n
\* free_ai_helpers 889-902: one entry appended to a section of length 0
secondary_floor(n) == IF n = 0 THEN n + FloorEntries ELSE n

free_study_guide_sections(kt, ic, fc, boom) ==
    IF boom THEN Fail("Error generating study guide")
    ELSE Ok(Guide("secondary", secondary_floor(kt), secondary_floor(ic),
                  secondary_floor(fc)))

SectionCounts == Items \cup {ConceptCap + 1}

InitGuide ==
    /\ pc = "idle"
    /\ result = EmptyResult
    /\ ret = NotReturned
    /\ topic = "None"
    /\ stages = <<>>
    /\ tierLog = <<>>
    /\ tiersCalled = {}
    /\ call \in {[key_terms |-> kt, important_concepts |-> ic, flashcards |-> fc,
                  boom |-> b, op |-> "text"] :
                    kt \in SectionCounts, ic \in SectionCounts,
                    fc \in SectionCounts, b \in BOOLEAN}

GuideDone(tier, v) ==
    /\ pc = "idle"
    /\ call.op = "text"
    /\ call' = [key_terms |-> call.key_terms,
                important_concepts |-> call.important_concepts,
                flashcards |-> call.flashcards, boom |-> call.boom,
                tier |-> tier, ret |-> v, op |-> "study guide"]
    /\ UNCHANGED <<pc, result, ret, topic, stages, tierLog, tiersCalled>>

SecondaryGuideSections ==
    GuideDone("secondary",
              free_study_guide_sections(call.key_terms, call.important_concepts,
                                        call.flashcards, call.boom))
StaticGuideSections ==
    GuideDone("static",
              generate_static_study_guide(call.key_terms, call.important_concepts,
                                          call.flashcards, call.boom))

NextGuide ==
    \/ SecondaryGuideSections
    \/ StaticGuideSections

SpecGuide == InitGuide /\ [][NextGuide]_vars

\* ------------------------------------------------- questions in a quiz
\* free_ai_helpers 962-1040.  blocks: numbered blocks of the answer that
\* hold a question; a block is read only while its index is below
\* num_questions.  fillable: sentences of the text, at the indexes the
\* fill loop visits, that are long enough for a fill-in-the-blank question.
free_quiz_count(blocks, fillable, num_questions) ==
    LET parsed == Min(blocks, num_questions)
    IN  parsed + Min(fillable, num_questions - parsed)

free_generate_quiz_counted(gen, gen2, boom, blocks, fillable, num_questions) ==
    IF boom THEN Fail("Error generating quiz")
    ELSE IF ~gen /\ ~gen2 THEN Fail("Unable to generate quiz. Please try again later.")
    ELSE Ok(Data("secondary", "dict", free_quiz_count(blocks, fillable, num_questions)))

QuestionCounts == Counts \cup {DefaultNumQuestions, GenericQuestions + 1}

\* a text with its qualifying slides, and an answer with its blocks
InitQuizCount ==
    /\ pc = "idle"
    /\ result = EmptyResult
    /\ ret = NotReturned
    /\ topic = "None"
    /\ stages = <<>>
    /\ tierLog = <<>>
    /\ tiersCalled = {}
    /\ call \in {[boom |-> b, slides |-> x, num_questions |-> n, op |-> "text",
                  blocks |-> y, fillable |-> f] :
                    b \in BOOLEAN, x \in QuestionCounts \cup {0},
                    n \in QuestionCounts, y \in QuestionCounts \cup {0},
                    f \in Items}

QuizCounted(tier, v) ==
    /\ pc = "idle"
    /\ call.op = "text"
    /\ call' = [boom |-> call.boom, slides |-> call.slides,
                num_questions |-> call.num_questions,
                tier |-> tier, ret |-> v, op |-> "quiz",
                blocks |-> call.blocks, fillable |-> call.fillable]
    /\ UNCHANGED <<pc, result, ret, topic, stages, tierLog, tiersCalled>>

SecondaryQuizCount ==
    \E g \in BOOLEAN, h \in BOOLEAN :
        QuizCounted("secondary",
                    free_generate_quiz_counted(g, h, call.boom, call.blocks,
                                               call.fillable, call.num_questions))

StaticQuizCount ==
    QuizCounted("static",
                generate_static_quiz(call.slides, call.num_questions, call.boom))

NextQuizCount ==
    \/ SecondaryQuizCount
    \/ StaticQuizCount

SpecQuizCount == InitQuizCount /\ [][NextQuizCount]_vars

\* ------------------------------------------- the step-driven flow (app.py)
\* st.session_state of src/app.py.  One script run of main() is one action:
\* the run a button starts, or the run st.rerun() asks for after a step.
TotalSteps == 5

\* what a step function of the flow can return: what its wrapper returns,
\* and the failure dict the results screen tests for
StepSummaryResults ==
    {get_summary(p, s, st).ret : p \in PrimarySummary, s \in SecondarySummary,
                                 st \in StaticSummary(DefaultMaxBullets)}
       \cup {Fail(StageError("Summary"))}
StepResourcesResults ==
    {get_resources(p, s, st).ret :
        p \in PrimaryResources, s \in SecondaryResources(DefaultMaxResources),
        st \in StaticResources(DefaultMaxResources)}
       \cup {Fail(StageError("Resources"))}
StepStudyGuideResults ==
    {generate_study_guide(p, s, st).ret :
        p \in PrimaryStudyGuide, s \in SecondaryStudyGuide, st \in StaticStudyGuide}
       \cup {Fail(StageError("StudyGuide"))}
StepQuizResults ==
    {generate_quiz(p, s, st).ret :
        p \in PrimaryQuiz, s \in SecondaryQuiz,
        st \in StaticQuiz(DefaultNumQuestions)}
       \cup {Fail(StageError("Quiz"))}

\* the step counter that stays where it is
progress_step_stuck(current_step, total_steps) == current_step

progress_step(current_step, total_steps) ==
    IF current_step + 1 > total_steps THEN total_steps ELSE current_step + 1

\* invoked: the step functions called since the last submit or reset, in
\* order (kept for the properties; the program has no such field)
NewSession ==
    [summary |-> NotReturned, resources |-> NotReturned,
     study_guide |-> NotReturned, quiz |-> NotReturned, op |-> "session",
     current_step |-> 0, total_steps |-> TotalSteps, is_processing |-> FALSE,
     processing_complete |-> FALSE, input_text |-> "", main_topic |-> "",
     personalized_insights |-> "None", invoked |-> <<>>]

InitSession ==
    /\ pc = "idle"
    /\ result = EmptyResult
    /\ ret = NotReturned
    /\ topic = "None"
    /\ stages = <<>>
    /\ tierLog = <<>>
    /\ tiersCalled = {}
    /\ call = NewSession

InputSectionShown ==
    /\ call.op = "session"
    /\ ~call.is_processing
    /\ ~call.processing_complete

\* a Generate button of the input section with a text, a transcript or a
\* file that was read: input_text and main_topic are set, then process_input
Submit ==
    /\ InputSectionShown
    /\ \E source \in {"typed", "youtube", "upload"},
          main_topic \in {"main topic", "General Topic", ""} :
        call' = [call EXCEPT !.input_text = source,
                             !.main_topic = main_topic,
                             !.is_processing = TRUE,
                             !.processing_complete = FALSE,
                             !.invoked = <<>>]
    /\ UNCHANGED <<pc, result, ret, topic, stages, tierLog, tiersCalled>>

\* the Start New Study Kit button of the sidebar
ResetSession ==
    /\ call.op = "session"
    /\ call' = [NewSession EXCEPT !.total_steps = call.total_steps]
    /\ UNCHANGED <<pc, result, ret, topic, stages, tierLog, tiersCalled>>

ProcessingStep(n, field, name, results) ==
    /\ call.op = "session"
    /\ call.is_processing
    /\ call.current_step = n
    /\ \E r \in results :
        call' = [call EXCEPT
                   ![field] = r,
                   !.invoked = Append(call.invoked, name),
                   !.current_step = progress_step(call.current_step,
                                                  call.total_steps)]
    /\ UNCHANGED <<pc, result, ret, topic, stages, tierLog, tiersCalled>>

ExtractingKeyConcepts ==
    ProcessingStep(0, "summary", "get_summary", StepSummaryResults)
FindingStudyResources ==
    ProcessingStep(1, "resources", "get_resources", StepResourcesResults)
GeneratingStudyGuide ==
    ProcessingStep(2, "study_guide", "generate_study_guide", StepStudyGuideResults)
PreparingQuiz ==
    ProcessingStep(3, "quiz", "generate_quiz", StepQuizResults)

Finalizing ==
    /\ call.op = "session"
    /\ call.is_processing
    /\ call.current_step = 4
    /\ call' = [call EXCEPT
                  !.current_step = progress_step(call.current_step,
                                                 call.total_steps),
                  !.is_processing = FALSE,
                  !.processing_complete = TRUE]
    /\ UNCHANGED <<pc, result, ret, topic, stages, tierLog, tiersCalled>>

\* the personalization section of the results screen, when the insights
\* were generated
Personalize ==
    /\ call.op = "session"
    /\ call.processing_complete
    /\ call' = [call EXCEPT !.personalized_insights = "insights"]
    /\ UNCHANGED <<pc, result, ret, topic, stages, tierLog, tiersCalled>>

NextSession ==
    \/ Submit
    \/ ResetSession
    \/ ExtractingKeyConcepts
    \/ FindingStudyResources
    \/ GeneratingStudyGuide
    \/ PreparingQuiz
    \/ Finalizing
    \/ Personalize

SpecSession == InitSession /\ [][NextSession]_vars

\* ------------------------------------------------------------- properties
WrapperOps == {"get_summary", "get_resources", "generate_study_guide", "generate_quiz"}
GenerationStages == {"Summary", "Resources", "StudyGuide", "Quiz"}
TierRank(t) == CASE t = "primary" -> 1 [] t = "secondary" -> 2 [] OTHER -> 3
Succeeded(out) == out.kind = "return" /\ out.value.success
NonEmpty(d) ==
    IF "n" \in DOMAIN d THEN d.n > 0
    ELSE d.key_terms > 0 /\ d.important_concepts > 0 /\ d.flashcards > 0

\* C1: whatever the primary and the secondary tier do (return success,
\* return failure or raise), get_summary, get_resources,
\* generate_study_guide and generate_quiz return a dict with success true
\* and do not raise, called directly or as a stage of process_input.
C1_Totality ==
    /\ call.op \in WrapperOps => call.ret.success
    /\ \A i \in 1..Len(stages) :
          stages[i].stage \in GenerationStages
              => stages[i].kind = "return" /\ stages[i].ok

\* a call in which the primary tier returned failure and the secondary raised
C1_Witness ==
    /\ call.op \in WrapperOps
    /\ call.p.kind = "return" /\ ~call.p.value.success
    /\ call.s.kind = "raise"
    /\ call.ret.success

\* C2: when the primary tier returns success false and the secondary tier
\* returns success true, the wrapper returns exactly the secondary tier's
\* dict, having called the primary once, then the secondary, and never the
\* static tier.
C2_SecondaryResult ==
    (/\ call.op \in WrapperOps
     /\ call.p.kind = "return" /\ ~call.p.value.success
     /\ Succeeded(call.s))
        => /\ call.ret = call.s.value
           /\ call.log = <<Tier("primary", call.p), Tier("secondary", call.s)>>

C2_Witness ==
    /\ call.op = "generate_quiz"
    /\ call.p.kind = "return" /\ ~call.p.value.success
    /\ Succeeded(call.s)
    /\ call.ret = call.s.value

\* C3: in one wrapper call the tiers are called in rising priority
\* (primary, secondary, static; the notes wrapper starts at the secondary
\* and never calls a primary), each at most once, none after a tier
\* returned success, and the dict returned is the one the last tier called
\* returned.
C3_TierOrder ==
    /\ call # NoCall =>
          /\ Len(call.log) >= 1
          /\ call.log[1].tier = IF call.op = "generate_topic_notes"
                                THEN "secondary" ELSE "primary"
          /\ \A i \in 1..(Len(call.log) - 1) :
                /\ TierRank(call.log[i].tier) < TierRank(call.log[i + 1].tier)
                /\ ~Succeeded(call.log[i].out)
          /\ call.log[Len(call.log)].out = Returned(call.ret)
    /\ \A i \in 1..(Len(tierLog) - 1) :
          /\ TierRank(tierLog[i].tier) < TierRank(tierLog[i + 1].tier)
          /\ ~Succeeded(tierLog[i].out)

\* a call that went through all three tiers
C3_Witness ==
    /\ call.op = "get_resources"
    /\ Len(call.log) = 3
    /\ call.log[3].out = Returned(call.ret)

\* C4: a tier call that raises inside a wrapper counts as that tier's
\* failure and the next tier in priority is called: after a primary tier
\* that raised the secondary tier is called, before the static tier.
C4_RaiseTriesNextTier ==
    call # NoCall =>
        \A i \in 1..Len(call.log) :
            call.log[i].out.kind = "raise"
                => /\ i < Len(call.log)
                   /\ TierRank(call.log[i + 1].tier) = TierRank(call.log[i].tier) + 1

StageSeq ==
    <<"TopicExtraction", "Summary", "Resources", "StudyGuide", "Quiz", "DetailedNotes">>
FieldOf(name) ==
    CASE name = "Summary" -> "summary"
      [] name = "Resources" -> "resources"
      [] name = "StudyGuide" -> "study_guide"
      [] name = "Quiz" -> "quiz"
      [] OTHER -> "detailed_notes"
LastStage == stages[Len(stages)]

C7_StageOrder ==
    /\ Len(stages) <= Len(StageSeq)
    /\ \A i \in 1..Len(stages) : stages[i].stage = StageSeq[i]
    /\ \A i \in 1..(Len(stages) - 1) : stages[i].ok
    /\ pc \notin {"idle", "returned"}
          => /\ \A i \in 1..Len(stages) : stages[i].ok
             /\ pc = StageSeq[Len(stages) + 1]
    /\ (Len(stages) >= 1 /\ ~LastStage.ok) => pc = "returned"

\* the Resources stage returned failure: nothing ran after it
C7_Witness ==
    /\ pc = "returned"
    /\ Len(stages) = 3
    /\ LastStage = StageDone("Resources", Returned(Fail(StageError("Resources"))))

\* C8: when the DetailedNotes stage returns success false after the
\* earlier stages succeeded, process_input returns success true with no
\* error, detailed_notes None, and summary, resources, study_guide and
\* quiz filled.
C8_NotesFailureSwallowed ==
    (/\ pc = "returned"
     /\ Len(stages) = Len(StageSeq)
     /\ LastStage.kind = "return" /\ ~LastStage.ok)
        => /\ ret.success
           /\ ret.error = "None"
           /\ ret.detailed_notes = NoData
           /\ \A i \in 2..5 : ret[FieldOf(StageSeq[i])] # NoData

C8_Witness ==
    /\ pc = "returned"
    /\ Len(stages) = Len(StageSeq)
    /\ LastStage = StageDone("DetailedNotes", Returned(Fail(StageError("DetailedNotes"))))
    /\ ret.success

\* the notes generation threw: generate_detailed_notes caught an exception
\* of its body and returned the failure, or raised
NotesGenerationThrew ==
    /\ pc = "returned"
    /\ Len(stages) = Len(StageSeq)
    /\ Len(tierLog) >= 1
    /\ tierLog[1].tier = "secondary"
    /\ tierLog[1].out \in {Raised, Returned(Fail("Error generating detailed notes"))}

\* C9 as stated: when the notes generation throws in a run whose earlier
\* stages succeeded, process_input returns success true with
\* detailed_notes None and the earlier fields filled.
C9_NotesAbsentAfterThrow ==
    NotesGenerationThrew
        => /\ ret.success
           /\ ret.detailed_notes = NoData
           /\ \A i \in 2..5 : ret[FieldOf(StageSeq[i])] # NoData

\* C9, amended: when the notes generation throws in a run whose earlier
\* stages succeeded, the notes wrapper falls back to the static notes, and
\* process_input returns success true with no error, detailed_notes
\* holding the notes of the static tier, and the earlier fields filled.
C9_NotesFromStaticAfterThrow ==
    NotesGenerationThrew
        => /\ ret.success
           /\ ret.error = "None"
           /\ Len(tierLog) = 2
           /\ tierLog[2].tier = "static"
           /\ ret.detailed_notes = [notes |-> tierLog[2].out.value.data]
           /\ \A i \in 2..5 : ret[FieldOf(StageSeq[i])] # NoData

C9_Witness ==
    /\ NotesGenerationThrew
    /\ tierLog[1].out.kind = "return"
    /\ ret.detailed_notes # NoData
    /\ ret.detailed_notes.notes.src = "static"

\* C10: when the transcript is missing or empty (empty text, failed
\* ingestion, invalid input type), no stage runs and no tier is called,
\* and process_input returns success false with a non-empty error.
C10_NoTranscriptNoStage ==
    result.transcript.kind \in {"None", "empty"}
        => /\ stages = <<>>
           /\ tierLog = <<>>
           /\ tiersCalled = {}
           /\ pc \in {"idle", "returned"}
           /\ pc = "returned" => /\ ~ret.success
                                 /\ ret.error \notin {"", "None"}

\* an ingestion that succeeded with an empty transcript
C10_Witness ==
    /\ pc = "returned"
    /\ result.success
    /\ result.transcript = EmptyText
    /\ ~ret.success

\* a summary is a non-empty string; a study guide has terms, concepts and
\* flashcards
SchemaValid(op, d) ==
    CASE op = "get_summary" -> d.shape = "str" /\ d.n > 0
      [] op = "generate_study_guide" -> NonEmpty(d)
      [] OTHER -> TRUE
EnvelopeOk(op, v) ==
    IF v.success
    THEN "data" \in DOMAIN v /\ v.data # NoData /\ SchemaValid(op, v.data)
    ELSE "error" \in DOMAIN v /\ v.error \notin {"", "None"}

\* C11: every dict a tier or a wrapper returns keeps the envelope: with
\* success true the payload is there, not None and valid for its schema;
\* with success false the error is a non-empty string.
C11_Envelope ==
    call # NoCall =>
        /\ EnvelopeOk(call.op, call.ret)
        /\ \A i \in 1..Len(call.log) :
              call.log[i].out.kind = "return"
                  => EnvelopeOk(call.op, call.log[i].out.value)

\* C12: every successful study guide a wrapper returns, from whichever
\* tier, has non-empty key_terms, important_concepts and flashcards.
C12_StudyGuideNonEmpty ==
    /\ (call.op = "generate_study_guide" /\ call.ret.success)
          => NonEmpty(call.ret.data)
    /\ result.study_guide # NoData => NonEmpty(result.study_guide)

\* C13: every question of a successful quiz a wrapper returns, from
\* whichever tier, has exactly the option keys A, B, C, D and an answer
\* letter that is one of the upper-case A, B, C, D and a key of its options.
C13_QuizOptionIntegrity ==
    (call.op = "generate_quiz" /\ call.ret.success)
        => \A i \in 1..Len(call.ret.data.questions) :
              LET q == call.ret.data.questions[i]
              IN  /\ q.options = Letters
                  /\ q.correct_answer \in Letters
                  /\ q.correct_answer \in q.options

\* C14: every successful resource list a wrapper returns, from whichever
\* tier, has at most the max_resources items that were asked for.
C14_ResourcesAtMostRequested ==
    (call.op = "get_resources" /\ call.ret.success)
        => call.ret.data.n <= call.requested

\* the container each payload has when the primary tier answers, which is
\* the one the result screens read
CanonicalShape(op) ==
    CASE op = "get_summary" -> "str"
      [] op = "generate_topic_notes" -> "list"
      [] OTHER -> "dict"

\* C15: the payload a wrapper returns has the same container shape
\* whichever tier produced it.
C15_CanonicalShape ==
    (call # NoCall /\ call.ret.success)
        => call.ret.data.shape = CanonicalShape(call.op)

\* C16: whatever process_input returns, on the success path, after a stage
\* failure, after an input failure and after an exception, is a dict with
\* the eight keys of the result template.
C16_EightFields ==
    pc = "returned" => DOMAIN ret = DOMAIN EmptyResult

PrimaryOps ==
    {"openai_get_summary", "openai_get_resources",
     "openai_generate_study_guide", "openai_generate_quiz"}

\* C17: without a credential every primary function returns success false
\* with a non-empty error, whatever the provider would have answered (no
\* call is made), and does not raise; a transport or authentication
\* failure and an unparsable JSON answer give success false as well.
C17_PrimaryFailsWithoutRaising ==
    call.op \in PrimaryOps =>
        /\ "success" \in DOMAIN call.ret
        /\ ~(call.key /\ call.ctor)
              => call.ret = Fail("OpenAI API key not configured")
        /\ (\/ call.resp = "exception"
            \/ call.resp = "badjson" /\ call.op # "openai_get_summary")
              => /\ ~call.ret.success
                 /\ call.ret.error \notin {"", "None"}

\* no key is set and the provider would have answered
C17_Witness ==
    /\ call.op = "openai_generate_quiz"
    /\ ~call.key
    /\ call.resp = "ok"
    /\ call.ret = Fail("OpenAI API key not configured")

\* a wrapper call in which the secondary function ran and every request
\* it made returned nothing
TotalFailure ==
    /\ "gen" \in DOMAIN call
    /\ ~call.gen /\ ~call.gen2
    /\ \E i \in 1..Len(call.log) : call.log[i].tier = "secondary"
LastTier == call.log[Len(call.log)].tier

\* C18 as stated: when every request of the secondary tier returns
\* nothing, each secondary function returns success false and the wrapper
\* goes on to the static tier.
C18_TotalFailureFails ==
    TotalFailure => ~call.s.value.success /\ LastTier = "static"

\* C18: when every request returns nothing, the study guide and the quiz
\* of the secondary tier return success false and the wrapper goes on to
\* the static tier; the summary, the resources and the detailed notes are
\* built locally and returned with success true by the wrapper, the static
\* tier not called, unless the function's body raised.
C18_TotalFailureByOperation ==
    TotalFailure =>
        IF call.op \in {"generate_study_guide", "generate_quiz"} \/ call.boom
        THEN /\ ~call.s.value.success
             /\ call.s.value.error # ""
             /\ LastTier = "static"
             /\ call.ret.data.src = "static"
        ELSE /\ call.s.value.success
             /\ LastTier = "secondary"
             /\ call.ret = call.s.value

\* the summary built from the text is what the wrapper returns
C18_Witness ==
    /\ TotalFailure
    /\ call.op = "get_summary"
    /\ ~call.boom
    /\ call.ret = call.s.value
    /\ call.ret.success

\* the study guide fails and the static one is returned
C18_WitnessStatic ==
    /\ TotalFailure
    /\ call.op = "generate_study_guide"
    /\ ~call.boom
    /\ call.ret.data.src = "static"

TopicOps == {"extract_main_topics", "process_input topic"}

\* C19: for every non-empty transcript the topic extract_main_topics
\* computes, and so the topic handed to the Resources stage, is a
\* non-empty string of at most 10 words.
C19_TopicNonEmptyShort ==
    (call.op \in TopicOps /\ call.text # <<>>) =>
        call.ret # <<>> /\ Len(call.ret) <= MarkerMaxWords

\* C20: a text with a marker followed by a phrase of 3 to 10 words that
\* ends at the next period yields exactly that phrase.
C20_MarkerPhraseReturned ==
    (call.op = "extract_main_topics" /\ marker_scan(call.text) # {}) =>
        call.ret \in marker_scan(call.text)

\* the titles of the slide headers of a text, each running from the colon
\* of "Slide N:" to the end of its line
RECURSIVE header_titles(_)
header_titles(text) ==
    IF Len(text) < 3 THEN <<>>
    ELSE IF text[1] = "Slide" /\ text[2] = "1" /\ text[3] = ":"
    THEN LET rest == Drop(text, 3)
             ends == {j \in 1..Len(rest) : rest[j] = "nl"}
             stop == IF ends = {} THEN Len(rest) + 1 ELSE First(ends)
         IN  <<Take(rest, stop - 1)>> \o header_titles(Drop(rest, stop - 1))
    ELSE header_titles(Tail(text))
QualifyingHeaders(text) == SelectSeq(header_titles(text), GoodTitle)
\* the first of the most frequent qualifying titles
MostFrequentHeader(text) ==
    LET q == QualifyingHeaders(text)
        best == {i \in 1..Len(q) : \A j \in 1..Len(q) : Count(q, q[j]) <= Count(q, q[i])}
    IN  q[First(best)]

\* C21: with no marker and with slide headers, extract_main_topics returns
\* the qualifying slide title (at most 5 words, more than 3 characters)
\* that occurs most often, the first of them on a tie; three headers
\* "Neural Networks" and one "Intro" give "Neural Networks".
C21_MostFrequentSlideTitle ==
    (/\ call.op = "extract_main_topics"
     /\ marker_scan(call.text) = {}
     /\ QualifyingHeaders(call.text) # <<>>)
        => call.ret = MostFrequentHeader(call.text)

InRequest == call.op = "make_api_request"
RequestOver == call.pos # "loop"
Returned200 == InRequest /\ RequestOver /\ call.ret # "None"
StatusesSent == {call.sent[i].status : i \in 1..Len(call.sent)}

C22_Safe ==
    InRequest =>
        /\ Len(call.sent) <= call.max_retries
        /\ call.attempt = Len(call.sent) - (IF Returned200 THEN 1 ELSE 0)
        /\ \A i \in 1..Len(call.sent) :
              call.sent[i].status = "200" => i = Len(call.sent) /\ Returned200
        /\ (RequestOver /\ call.ret = "None")
              => /\ Len(call.sent) = call.max_retries
                 /\ "200" \notin StatusesSent
        /\ Returned200 => call.sent[Len(call.sent)].status = "200"

C23_BackoffWaits ==
    InRequest =>
        /\ Len(call.slept) =
              Cardinality({i \in 1..Len(call.sent) : call.sent[i].status = "429"})
        /\ \A i \in 1..Len(call.slept) :
              LET k == call.slept[i].attempt
                  w == call.slept[i].wait
              IN  /\ k + 1 <= Len(call.sent)
                  /\ call.sent[k + 1].status = "429"
                  /\ (BackoffBase ^ k) * Resolution <= w
                  /\ w < (BackoffBase ^ k + 1) * Resolution
        /\ \A i \in 1..(Len(call.slept) - 1) :
              call.slept[i].wait < call.slept[i + 1].wait

\* three responses of status 429 and three waits
C23_Witness ==
    /\ InRequest
    /\ Len(call.slept) = DefaultMaxRetries
    /\ call.slept[DefaultMaxRetries].wait >= (BackoffBase ^ 2) * Resolution

\* the endpoint of the attempt after attempt i: that of the next attempt
\* sent, or the one the loop holds for it
EndpointAfter(i) ==
    IF i < Len(call.sent) THEN call.sent[i + 1].endpoint ELSE call.endpoint

\* C24: after a failure that is no rate limit (another status, an
\* exception of the request or of the decoding) the next attempt goes to
\* an endpoint other than the one that failed; after a response of status
\* 429 it goes to the same endpoint.
C24_AlternateEndpoint ==
    (InRequest /\ call.pos = "loop") =>
        \A i \in 1..Len(call.sent) :
            /\ call.sent[i].status \in Failures
                  => EndpointAfter(i) # call.sent[i].endpoint
            /\ call.sent[i].status = "429"
                  => EndpointAfter(i) = call.sent[i].endpoint

\* C25: whatever the length of the transcript, the part of it that a
\* generation prompt of the primary or of the secondary tier holds has at
\* most 10,000 characters.
C25_PromptTextBounded ==
    "prompt" \in DOMAIN call => call.prompt.kept <= TextBudget

\* C26: two runs of generate_static_quiz on the same text with the same
\* num_questions give the same number of questions and, question by
\* question, the same option keys, whatever the random choices.
C26_SameStructure ==
    call.op = "generate_static_quiz again" =>
        /\ Len(call.first) = Len(call.second)
        /\ \A i \in 1..Len(call.first) :
              call.first[i].options = call.second[i].options

\* two runs whose slide questions have different correct letters
C26_Witness ==
    /\ call.op = "generate_static_quiz again"
    /\ call.slides > 0
    /\ ~call.boom
    /\ call.first[1].correct_answer # call.second[1].correct_answer

\* a guide whose sections went through extraction and defaults
GuideBuilt == call.op = "study guide" /\ ~call.boom
Sections == {"key_terms", "important_concepts", "flashcards"}
\* entries of a section beyond those extracted and kept
DefaultsAdded(sec) ==
    call.ret.data[sec]
    - (IF sec = "key_terms" \/ call.tier = "secondary" THEN call[sec]
       ELSE IF sec = "flashcards" THEN Min(call[sec], FlashcardCap)
       ELSE Min(call[sec], ConceptCap))

\* C27 as stated: in the secondary and in the static tier a section still
\* empty after the fallbacks gets exactly one default entry, a non-empty
\* section none.
C27_OneDefaultEntry ==
    GuideBuilt =>
        \A sec \in Sections :
            DefaultsAdded(sec) = IF call[sec] = 0 THEN 1 ELSE 0

CannedEntries(sec) ==
    CASE sec = "key_terms" -> CannedKeyTerms
      [] sec = "important_concepts" -> CannedConcepts
      [] OTHER -> CannedFlashcards

\* C27: a section still empty after the fallbacks gets exactly one default
\* entry in the secondary tier, and four key terms, three concepts or
\* three flashcards in the static tier; a non-empty section gets none.
C27_DefaultEntriesByTier ==
    GuideBuilt =>
        \A sec \in Sections :
            DefaultsAdded(sec) =
                IF call[sec] # 0 THEN 0
                ELSE IF call.tier = "secondary" THEN 1
                ELSE CannedEntries(sec)

\* only the flashcards were empty, in the secondary tier
C27_Witness ==
    /\ GuideBuilt
    /\ call.tier = "secondary"
    /\ call.key_terms > 0 /\ call.important_concepts > 0
    /\ call.flashcards = 0
    /\ call.ret.data.flashcards = 1

\* C29: a successful quiz of the secondary tier has at most num_questions
\* questions; the quiz of the static tier has at most num_questions and,
\* when num_questions is at most 5, exactly num_questions.
C29_AtMostRequested ==
    (call.op = "quiz" /\ call.ret.success) =>
        /\ call.ret.data.n <= call.num_questions
        /\ (call.tier = "static" /\ call.num_questions <= GenericQuestions)
              => call.ret.data.n = call.num_questions

MaxAttempts(caller) ==
    IF caller \in TwoRequestCallers THEN 2 * DefaultMaxRetries
    ELSE DefaultMaxRetries
FirstEndpoint ==
    IF call.sent = <<>> THEN call.endpoint ELSE call.sent[1].endpoint
ByCaller == InRequest /\ call.caller \in SecondaryCallers

\* the parts of C28 about the requests made: a second request is made by
\* the study guide and the quiz only, goes to flan-t5-xxl first, and is
\* made if and only if the first returned nothing; the attempts of one
\* call stay within the bound
C28_Requests ==
    ByCaller =>
        /\ call.request = 2 =>
              /\ call.caller \in TwoRequestCallers
              /\ Nothing(call.first)
              /\ FirstEndpoint = LastChanceEndpoint
        /\ (call.pos = "returned" /\ call.request = 1
               /\ call.caller \in TwoRequestCallers) => ~Nothing(call.ret)
        /\ call.total <= MaxAttempts(call.caller)

BothNothing == call.request = 2 /\ Nothing(call.first) /\ Nothing(call.ret)

\* C28 as stated: the study guide and the quiz return success false only
\* when both requests returned nothing.
C28_FailsOnlyWhenBothNothing ==
    /\ C28_Requests
    /\ (ByCaller /\ call.pos = "returned" /\ call.caller \in TwoRequestCallers
           /\ ~call.answer.success) => BothNothing

\* C28: the study guide and the quiz of the secondary tier make a second
\* request, first sent to flan-t5-xxl, if and only if the first returned
\* nothing; they return success false when both requests returned nothing
\* and otherwise only when their body raised; one call makes at most
\* 2 * max_retries attempts, and at most max_retries for the summary, the
\* resources and the notes.
C28_SecondRequest ==
    /\ C28_Requests
    /\ (ByCaller /\ call.pos = "returned" /\ call.caller \in TwoRequestCallers)
          => (~call.answer.success <=> (BothNothing \/ call.raised))

\* six attempts, nothing returned, the quiz gives up
C28_Witness ==
    /\ ByCaller
    /\ call.pos = "returned"
    /\ call.caller = "generate_quiz"
    /\ call.total = 2 * DefaultMaxRetries
    /\ BothNothing
    /\ ~call.raised
    /\ ~call.answer.success

InSession == call.op = "session"
StepFunctions ==
    <<"get_summary", "get_resources", "generate_study_guide", "generate_quiz">>
StepResults == <<call.summary, call.resources, call.study_guide, call.quiz>>

\* C30: in the step-driven flow of app.py, over any sequence of submit,
\* rerun and reset: current_step stays within 0..total_steps; is_processing
\* and processing_complete are never both true; processing_complete is true
\* only after summary, resources, study guide and quiz were each invoked
\* exactly once, in that order, in the current run, with current_step = 5;
\* and while processing the step counter equals the number of step
\* functions invoked, whatever the success of their results.
C30_StepFlow ==
    InSession =>
        /\ call.current_step \in 0..call.total_steps
        /\ ~(call.is_processing /\ call.processing_complete)
        /\ call.processing_complete =>
              /\ call.invoked = StepFunctions
              /\ call.current_step = TotalSteps
        /\ call.is_processing =>
              /\ call.current_step = Len(call.invoked)
              /\ call.invoked = SubSeq(StepFunctions, 1, call.current_step)
              /\ \A i \in 1..Len(call.invoked) : StepResults[i] # NotReturned

\* a run that completed although its summary and its quiz failed
C30_Witness ==
    /\ InSession
    /\ call.processing_complete
    /\ call.current_step = TotalSteps
    /\ ~call.summary.success
    /\ call.resources.success
    /\ ~call.quiz.success
    /\ call.personalized_insights = "insights"

====
